---- MODULE Spec2Model ----
(***************************************************************************)
(* The assignment board of dnd-item-assignment: the Item Store and the     *)
(* Slot Store held by the top-level component, and the event handlers that *)
(* rewrite them (handleDragStart, handleDragEnd, addMoreSlots,             *)
(* removeTwoSlots, removeItemFromSlot).                                    *)
(*                                                                         *)
(* Strings are modelled by what builds them: the item id "n" is the        *)
(* number n, `slot-${n}` is <<"slot-", n>>, `Slot ${n}` is <<"Slot ", n>>  *)
(* and "Task n" is <<"Task ", n>>.  The optional field slotId of an Item   *)
(* is always present in the model and holds undefined when the item has    *)
(* none: a missing field and a field holding undefined read alike, compare *)
(* alike under deep equality and serialise alike.                          *)
(*                                                                         *)
(* In Spec, SpecEvents, SpecSnapshot and SpecLifecycle every handler reads  *)
(* the items and slots of the latest render: React renders after each      *)
(* discrete event before the next one is delivered.  SpecStale lets two     *)
(* handler calls be dispatched from one render.                            *)
(***************************************************************************)
EXTENDS Integers, Sequences, FiniteSets, TLC

\* Bounds of the model.
\* The user drags and unassigns only the first MaxActive seed items.
MaxActive == 3
\* addMoreSlots is not taken once the Slot Store would exceed MaxSlots slots.
MaxSlots == 4

\* SpecLifecycle and SpecStale: the user drags and unassigns only the first
\* MaxMoved seed items.
MaxMoved == 2
\* SpecLifecycle: addMoreSlots is not taken after MaxAddCalls calls of it.
MaxAddCalls == 3

\* const.ts is not part of the available source; the value is the one the
\* specification's capacity property uses (maxItemsPerSlot = 2).
MAX_ITEMS_PER_SLOT == 2

VARIABLES
    items,              \* useState<Item[]>: the Item Store
    slots,              \* useState<Slot[]>: the Slot Store
    activeItem,         \* useState<Item | null>: the item shown in the overlay
    ENABLE_SLOT_LIMIT,  \* the static configuration flag of const.ts
    event,              \* history: the event the last handler call received
    calls,              \* history: the addSlots and removeSlots calls so far
    snapshot,           \* the render the handlers of SpecStale close over
    seq,                \* SpecStale: the stores had each handler read the latest
    dispatched          \* SpecStale: the handler calls since the last render

vars == <<items, slots, activeItem, ENABLE_SLOT_LIMIT, event, calls, snapshot, seq, dispatched>>

undefined == <<>>
null == [null |-> TRUE]

SlotId(n) == <<"slot-", n>>
SlotName(n) == <<"Slot ", n>>

initialItems == [n \in 1..10 |-> [id |-> n, content |-> <<"Task ", n>>, slotId |-> undefined]]

initialSlots ==
    << [id |-> SlotId(1), name |-> SlotName(1), items |-> <<>>],
       [id |-> SlotId(2), name |-> SlotName(2), items |-> <<>>] >>

\* { ...item, slotId: sid }
withSlotId(item, sid) == [id |-> item.id, content |-> item.content, slotId |-> sid]

\* list.some((item) => item.id === id)
someId(list, id) == \E k \in DOMAIN list : list[k].id = id

\* list.filter((item) => item.id !== id)
filterOutId(list, id) == SelectSeq(list, LAMBDA it : it.id # id)

\* list.find((item) => item.id === id): the first match, or undefined
findItem(list, id) ==
    LET hits == {k \in DOMAIN list : list[k].id = id} IN
    IF hits = {} THEN undefined
    ELSE list[CHOOSE k \in hits : \A j \in hits : k <= j]

\* items.filter((item) => !item.slotId)
unassignedItems == SelectSeq(items, LAMBDA it : it.slotId = undefined)

----------------------------------------------------------------------------
\* Mutant of dragEndItems: the Item Store is left as it was.
dragEndItems_NotWritten(prevItems, actItem, targetSlot) == prevItems

\* handleDragEnd: the updater handed to setItems
dragEndItems(prevItems, actItem, targetSlot) ==
    [k \in DOMAIN prevItems |->
        IF prevItems[k].id = actItem.id
        THEN withSlotId(prevItems[k], targetSlot.id)
        ELSE prevItems[k]]

\* Mutant of dragEndSlot: the item is not removed from the other slots.
dragEndSlot_NotRemoved(slot, actItem, targetSlot, limit) ==
    IF slot.id = targetSlot.id
    THEN IF ~someId(slot.items, actItem.id)
         THEN IF limit /\ Len(slot.items) >= MAX_ITEMS_PER_SLOT
              THEN slot
              ELSE [slot EXCEPT !.items = Append(@, withSlotId(actItem, targetSlot.id))]
         ELSE slot
    ELSE slot

\* Mutant of dragEndSlot: the limit test is > instead of >=.
dragEndSlot_OffByOne(slot, actItem, targetSlot, limit) ==
    IF slot.id = targetSlot.id
    THEN IF ~someId(slot.items, actItem.id)
         THEN IF limit /\ Len(slot.items) > MAX_ITEMS_PER_SLOT
              THEN slot
              ELSE [slot EXCEPT !.items = Append(@, withSlotId(actItem, targetSlot.id))]
         ELSE slot
    ELSE [slot EXCEPT !.items = filterOutId(@, actItem.id)]

\* Mutant of dragEndSlot: the item is put first in the target's list.
dragEndSlot_Prepended(slot, actItem, targetSlot, limit) ==
    IF slot.id = targetSlot.id
    THEN IF ~someId(slot.items, actItem.id)
         THEN IF limit /\ Len(slot.items) >= MAX_ITEMS_PER_SLOT
              THEN slot
              ELSE [slot EXCEPT !.items = <<withSlotId(actItem, targetSlot.id)>> \o @]
         ELSE slot
    ELSE [slot EXCEPT !.items = filterOutId(@, actItem.id)]

\* Mutant of dragEndSlot: no test that the item is already in the target.
dragEndSlot_NoExistsTest(slot, actItem, targetSlot, limit) ==
    IF slot.id = targetSlot.id
    THEN IF limit /\ Len(slot.items) >= MAX_ITEMS_PER_SLOT
         THEN slot
         ELSE [slot EXCEPT !.items = Append(@, withSlotId(actItem, targetSlot.id))]
    ELSE [slot EXCEPT !.items = filterOutId(@, actItem.id)]

\* handleDragEnd: what the setSlots updater returns for one slot
dragEndSlot(slot, actItem, targetSlot, limit) ==
    IF slot.id = targetSlot.id
    THEN IF ~someId(slot.items, actItem.id)
         THEN IF limit /\ Len(slot.items) >= MAX_ITEMS_PER_SLOT
              THEN slot
              ELSE [slot EXCEPT !.items = Append(@, withSlotId(actItem, targetSlot.id))]
         ELSE slot
    ELSE [slot EXCEPT !.items = filterOutId(@, actItem.id)]

\* handleDragEnd: the updater handed to setSlots
dragEndSlots(prevSlots, actItem, targetSlot, limit) ==
    [k \in DOMAIN prevSlots |-> dragEndSlot(prevSlots[k], actItem, targetSlot, limit)]

\* Mutant of newSlots: the numbering starts at the current slot count.
newSlots_ZeroBased(currentSlotCount) ==
    << [id |-> SlotId(currentSlotCount), name |-> SlotName(currentSlotCount), items |-> <<>>],
       [id |-> SlotId(currentSlotCount + 1), name |-> SlotName(currentSlotCount + 1), items |-> <<>>] >>

\* Mutant of newSlots: both slots get the id of the first.
newSlots_SameId(currentSlotCount) ==
    << [id |-> SlotId(currentSlotCount + 1), name |-> SlotName(currentSlotCount + 1), items |-> <<>>],
       [id |-> SlotId(currentSlotCount + 1), name |-> SlotName(currentSlotCount + 2), items |-> <<>>] >>

\* addMoreSlots: the two slots built from the current slot count
newSlots(currentSlotCount) ==
    << [id |-> SlotId(currentSlotCount + 1), name |-> SlotName(currentSlotCount + 1), items |-> <<>>],
       [id |-> SlotId(currentSlotCount + 2), name |-> SlotName(currentSlotCount + 2), items |-> <<>>] >>

\* Mutant of dropLastTwo: slice(0, -1).
dropLastTwo_One(list) == IF Len(list) <= 1 THEN <<>> ELSE SubSeq(list, 1, Len(list) - 1)

\* list.slice(0, -2)
dropLastTwo(list) == IF Len(list) <= 2 THEN <<>> ELSE SubSeq(list, 1, Len(list) - 2)

\* list.slice(-2)
lastTwo(list) == IF Len(list) <= 2 THEN list ELSE SubSeq(list, Len(list) - 1, Len(list))

\* removeTwoSlots: the ids pushed to itemsToUnassign
itemsToUnassign(slotsToRemove) ==
    UNION {{slotsToRemove[s].items[k].id : k \in DOMAIN slotsToRemove[s].items} :
              s \in DOMAIN slotsToRemove}

\* Mutant of removeSlotsItems: the items of the removed slots are deleted.
removeSlotsItems_Deleted(prevItems, toUnassign) ==
    SelectSeq(prevItems, LAMBDA it : it.id \notin toUnassign)

\* removeTwoSlots: the updater handed to setItems
removeSlotsItems(prevItems, toUnassign) ==
    [k \in DOMAIN prevItems |->
        IF prevItems[k].id \in toUnassign
        THEN withSlotId(prevItems[k], undefined)
        ELSE prevItems[k]]

\* Mutant of unassignItems: the slotId is not cleared.
unassignItems_NotCleared(prevItems, itemId) == prevItems

\* removeItemFromSlot: the updater handed to setItems
unassignItems(prevItems, itemId) ==
    [k \in DOMAIN prevItems |->
        IF prevItems[k].id = itemId
        THEN withSlotId(prevItems[k], undefined)
        ELSE prevItems[k]]

\* Mutant of unassignSlots: the item stays in its list.
unassignSlots_NotFiltered(prevSlots, itemId) == prevSlots

\* removeItemFromSlot: the updater handed to setSlots
unassignSlots(prevSlots, itemId) ==
    [k \in DOMAIN prevSlots |->
        [prevSlots[k] EXCEPT !.items = filterOutId(@, itemId)]]

----------------------------------------------------------------------------
\* The inputs of the handlers.
UnknownItemId == Len(initialItems) + 1
ActiveIds == (1..MaxActive) \cup {UnknownItemId}

\* over: null, a droppable that is not a slot, or a slot droppable
overSlot(slot) == [type |-> "slot", slot |-> slot]
overOther == [type |-> "item"]

\* The droppables on screen: one per slot of the rendered Slot Store.
RenderedOvers == {null, overOther} \cup {overSlot(slots[k]) : k \in DOMAIN slots}

\* A drop target that carries the snapshot of any slot ever rendered,
\* present in the Slot Store or not.
SnapshotOvers ==
    {null, overOther} \cup
    {overSlot([id |-> SlotId(n), name |-> SlotName(n), items |-> <<>>]) : n \in 1..MaxSlots}

Init ==
    /\ items = initialItems
    /\ slots = initialSlots
    /\ activeItem = null
    /\ ENABLE_SLOT_LIMIT \in BOOLEAN
    /\ event = [op |-> "init"]
    /\ calls = [added |-> 0, removed |-> 0]
    /\ snapshot = [items |-> initialItems, slots |-> initialSlots]
    /\ seq = [items |-> initialItems, slots |-> initialSlots]
    /\ dispatched = 0

handleDragStart(activeId) ==
    LET item == findItem(items, activeId) IN
    /\ activeItem' = IF item # undefined THEN item ELSE activeItem
    /\ UNCHANGED <<items, slots, ENABLE_SLOT_LIMIT>>

\* Mutant of handleDragEnd: a drop outside every slot unassigns the item.
handleDragEnd_DropOutsideUnassigns(activeId, over) ==
    LET actItem == findItem(items, activeId) IN
    /\ activeItem' = null
    /\ IF over = null \/ actItem = undefined \/ over.type # "slot"
       THEN /\ items' = unassignItems(items, activeId)
            /\ slots' = unassignSlots(slots, activeId)
       ELSE /\ items' = dragEndItems(items, actItem, over.slot)
            /\ slots' = dragEndSlots(slots, actItem, over.slot, ENABLE_SLOT_LIMIT)
    /\ UNCHANGED ENABLE_SLOT_LIMIT

handleDragEnd(activeId, over) ==
    LET actItem == findItem(items, activeId) IN
    /\ activeItem' = null
    /\ IF over = null \/ actItem = undefined \/ over.type # "slot"
       THEN UNCHANGED <<items, slots>>
       ELSE /\ items' = dragEndItems(items, actItem, over.slot)
            /\ slots' = dragEndSlots(slots, actItem, over.slot, ENABLE_SLOT_LIMIT)
    /\ UNCHANGED ENABLE_SLOT_LIMIT

addMoreSlots ==
    /\ slots' = slots \o newSlots(Len(slots))
    /\ UNCHANGED <<items, activeItem, ENABLE_SLOT_LIMIT>>

\* Mutant of removeTwoSlots: the floor test is < 2 instead of <= 2.
removeTwoSlots_WrongFloor ==
    /\ IF Len(slots) < 2
       THEN UNCHANGED <<items, slots>>
       ELSE /\ items' = removeSlotsItems(items, itemsToUnassign(lastTwo(slots)))
            /\ slots' = dropLastTwo(slots)
    /\ UNCHANGED <<activeItem, ENABLE_SLOT_LIMIT>>

removeTwoSlots ==
    /\ IF Len(slots) <= 2
       THEN UNCHANGED <<items, slots>>
       ELSE /\ items' = removeSlotsItems(items, itemsToUnassign(lastTwo(slots)))
            /\ slots' = dropLastTwo(slots)
    /\ UNCHANGED <<activeItem, ENABLE_SLOT_LIMIT>>

removeItemFromSlot(itemId) ==
    /\ items' = unassignItems(items, itemId)
    /\ slots' = unassignSlots(slots, itemId)
    /\ UNCHANGED <<activeItem, ENABLE_SLOT_LIMIT>>

----------------------------------------------------------------------------
\* The specifications.  `overs` is the set of drop targets a drag can end
\* on; with `rec` the history variable records the event of each step.
Record(rec, e) ==
    /\ IF rec THEN event' = e ELSE UNCHANGED event
    /\ UNCHANGED <<calls, snapshot, seq, dispatched>>

DragStart(rec) ==
    \E id \in ActiveIds :
        handleDragStart(id) /\ Record(rec, [op |-> "dragStart", activeId |-> id])

DragEnd(overs, rec) ==
    \E id \in ActiveIds : \E over \in overs :
        handleDragEnd(id, over) /\ Record(rec, [op |-> "dragEnd", activeId |-> id, over |-> over])

\* The events of the two buttons record the slot count the handler read.
AddSlots(rec) ==
    /\ Len(slots) + 2 <= MaxSlots
    /\ addMoreSlots
    /\ Record(rec, [op |-> "addSlots", slotCount |-> Len(slots)])

RemoveSlots(rec) ==
    removeTwoSlots /\ Record(rec, [op |-> "removeSlots", slotCount |-> Len(slots)])

Unassign(rec) ==
    \E id \in ActiveIds :
        removeItemFromSlot(id) /\ Record(rec, [op |-> "unassign", itemId |-> id])

\* Every drop lands on a droppable of the current render.
Next ==
    \/ DragStart(FALSE)
    \/ DragEnd(RenderedOvers, FALSE)
    \/ AddSlots(FALSE)
    \/ RemoveSlots(FALSE)
    \/ Unassign(FALSE)

Spec == Init /\ [][Next]_vars

\* The steps of the handlers that write the stores, each recording its
\* event.  handleDragStart writes activeItem alone, which no handler reads.
NextEvents ==
    \/ DragEnd(RenderedOvers, TRUE)
    \/ AddSlots(TRUE)
    \/ RemoveSlots(TRUE)
    \/ Unassign(TRUE)

SpecEvents == Init /\ [][NextEvents]_vars

\* The drop target may carry the snapshot of a slot that is no longer in the
\* Slot Store.
NextSnapshot ==
    \/ DragStart(TRUE)
    \/ DragEnd(SnapshotOvers, TRUE)
    \/ AddSlots(TRUE)
    \/ RemoveSlots(TRUE)
    \/ Unassign(TRUE)

SpecSnapshot == Init /\ [][NextSnapshot]_vars

\* The slot lifecycle: the same handlers, with the calls of the two buttons
\* counted; a removeSlots call counts when it read more than two slots.
Counted(c) ==
    /\ calls' = c
    /\ UNCHANGED <<event, snapshot, seq, dispatched>>

MovedIds == 1..MaxMoved

NextLifecycle ==
    \/ \E id \in MovedIds : handleDragStart(id) /\ Counted(calls)
    \/ \E id \in MovedIds : \E over \in RenderedOvers : handleDragEnd(id, over) /\ Counted(calls)
    \/ /\ calls.added < MaxAddCalls
       /\ addMoreSlots
       /\ Counted([calls EXCEPT !.added = @ + 1])
    \/ /\ removeTwoSlots
       /\ Counted([calls EXCEPT !.removed = IF Len(slots) > 2 THEN @ + 1 ELSE @])
    \/ \E id \in MovedIds : removeItemFromSlot(id) /\ Counted(calls)

SpecLifecycle == Init /\ [][NextLifecycle]_vars

----------------------------------------------------------------------------
\* The handlers as functions of what they read: `closure` is the render whose
\* items and slots the handler body reads, `stores` are the latest stores,
\* which React hands to the updaters as prevItems and prevSlots.

\* handleDragEnd: items.find reads the closure, both updaters the stores
dragEndAfter(closure, stores, activeId, over, limit) ==
    LET actItem == findItem(closure.items, activeId) IN
    IF over = null \/ actItem = undefined \/ over.type # "slot"
    THEN stores
    ELSE [items |-> dragEndItems(stores.items, actItem, over.slot),
          slots |-> dragEndSlots(stores.slots, actItem, over.slot, limit)]

\* addMoreSlots: slots.length reads the closure, the updater the stores
addSlotsAfter(closure, stores) ==
    [items |-> stores.items,
     slots |-> stores.slots \o newSlots(Len(closure.slots))]

\* removeTwoSlots: the floor test and slotsToRemove read the closure, both
\* updaters the stores
removeSlotsAfter(closure, stores) ==
    IF Len(closure.slots) <= 2
    THEN stores
    ELSE [items |-> removeSlotsItems(stores.items, itemsToUnassign(lastTwo(closure.slots))),
          slots |-> dropLastTwo(stores.slots)]

\* removeItemFromSlot: reads the stores alone
unassignAfter(stores, itemId) ==
    [items |-> unassignItems(stores.items, itemId),
     slots |-> unassignSlots(stores.slots, itemId)]

\* The droppables of the render the handlers close over.
SnapshotSlotOvers == {null} \cup {overSlot(snapshot.slots[k]) : k \in DOMAIN snapshot.slots}

\* One handler call of SpecStale: the stores become what the handler makes of
\* them reading the render `snapshot`; seq becomes what it makes of seq
\* reading seq, the result of the calls so far.
Dispatch(e, new, ref, active) ==
    /\ dispatched < 2
    /\ items' = new.items
    /\ slots' = new.slots
    /\ seq' = ref
    /\ activeItem' = active
    /\ event' = e
    /\ dispatched' = dispatched + 1
    /\ UNCHANGED <<ENABLE_SLOT_LIMIT, calls, snapshot>>

StaleDragEnd ==
    \E id \in MovedIds : \E over \in SnapshotSlotOvers :
        Dispatch([op |-> "dragEnd", activeId |-> id, over |-> over],
                 dragEndAfter(snapshot, [items |-> items, slots |-> slots], id, over, ENABLE_SLOT_LIMIT),
                 dragEndAfter(seq, seq, id, over, ENABLE_SLOT_LIMIT),
                 null)

StaleAddSlots ==
    /\ Len(slots) <= MaxSlots
    /\ Dispatch([op |-> "addSlots", slotCount |-> Len(snapshot.slots)],
                addSlotsAfter(snapshot, [items |-> items, slots |-> slots]),
                addSlotsAfter(seq, seq),
                activeItem)

StaleRemoveSlots ==
    Dispatch([op |-> "removeSlots", slotCount |-> Len(snapshot.slots)],
             removeSlotsAfter(snapshot, [items |-> items, slots |-> slots]),
             removeSlotsAfter(seq, seq),
             activeItem)

StaleUnassign ==
    \E id \in MovedIds :
        Dispatch([op |-> "unassign", itemId |-> id],
                 unassignAfter([items |-> items, slots |-> slots], id),
                 unassignAfter(seq, id),
                 activeItem)

\* React renders: the next handlers close over the stores as they are now.
Render ==
    /\ dispatched > 0
    /\ snapshot' = [items |-> items, slots |-> slots]
    /\ seq' = [items |-> items, slots |-> slots]
    /\ dispatched' = 0
    /\ UNCHANGED <<items, slots, activeItem, ENABLE_SLOT_LIMIT, event, calls>>

\* Up to two handler calls are dispatched from one render.
NextStale ==
    \/ StaleDragEnd
    \/ StaleAddSlots
    \/ StaleRemoveSlots
    \/ StaleUnassign
    \/ Render

SpecStale == Init /\ [][NextStale]_vars

----------------------------------------------------------------------------
\* Vocabulary of the properties.

\* the slots (by position) of ss whose list holds an item with this id
holders(ss, id) == {s \in DOMAIN ss : \E k \in DOMAIN ss[s].items : ss[s].items[k].id = id}

\* the ids of the slots of ss
slotIds(ss) == {ss[s].id : s \in DOMAIN ss}

\* the Item Store has an item with this id
knownItem(its, id) == \E i \in DOMAIN its : its[i].id = id

\* list without the items of this id, the rest in order
without(list, id) == SelectSeq(list, LAMBDA it : it.id # id)

\* the event is a drag end over a slot droppable
dropOnSlot(e) == e.op = "dragEnd" /\ e.over # null /\ e.over.type = "slot"

\* the event is a known item dropped on the slot at position t of ss
dropOf(e, its, ss, t) ==
    /\ dropOnSlot(e)
    /\ knownItem(its, e.activeId)
    /\ ss[t].id = e.over.slot.id

----------------------------------------------------------------------------
\* C1: in every reachable state, every item of the Item Store whose slotId is
\* present is in the list of exactly one slot, and that slot's id is the
\* item's slotId.
C1_AssignedItemIsInItsSlot ==
    \A i \in DOMAIN items :
        items[i].slotId # undefined =>
            \E s \in DOMAIN slots :
                /\ slots[s].id = items[i].slotId
                /\ holders(slots, items[i].id) = {s}

\* C2: with the limit enabled, dropping an item that is not in slot T on T
\* when T holds MAX_ITEMS_PER_SLOT items or more leaves both stores unchanged.
C2_DropOnFullSlotChangesNothing ==
    [][\A t \in DOMAIN slots :
          ( /\ dropOf(event', items, slots, t)
            /\ ENABLE_SLOT_LIMIT
            /\ t \notin holders(slots, event'.activeId)
            /\ Len(slots[t].items) >= MAX_ITEMS_PER_SLOT )
          => (items' = items /\ slots' = slots)]_vars

\* C3: in every reachable state, every item in a slot's list has, in the Item
\* Store, the slotId of that slot, and the copy in the list carries it too.
C3_ListedItemHasSlotId ==
    \A s \in DOMAIN slots : \A k \in DOMAIN slots[s].items :
        /\ slots[s].items[k].slotId = slots[s].id
        /\ knownItem(items, slots[s].items[k].id)
        /\ \A i \in DOMAIN items :
               items[i].id = slots[s].items[k].id => items[i].slotId = slots[s].id

\* Witness of C3: items have been assigned, two to one slot and one to another.
C3_Witness ==
    \E s, t \in DOMAIN slots :
        s # t /\ Len(slots[s].items) >= 2 /\ Len(slots[t].items) >= 1

\* C4: in every reachable state, no item id is in the lists of two slots.
C4_ItemInAtMostOneSlot ==
    \A i \in DOMAIN items : Cardinality(holders(slots, items[i].id)) <= 1

\* Witness of C4: every draggable item is assigned, over at least two slots.
C4_Witness ==
    /\ \A id \in 1..MaxActive : holders(slots, id) # {}
    /\ \E s, t \in DOMAIN slots : s # t /\ slots[s].items # <<>> /\ slots[t].items # <<>>

\* C5: with the limit enabled, no slot's list is ever longer than
\* MAX_ITEMS_PER_SLOT.
C5_SlotWithinLimit ==
    ENABLE_SLOT_LIMIT => \A s \in DOMAIN slots : Len(slots[s].items) <= MAX_ITEMS_PER_SLOT

\* Witness of C5: the limit is enabled, a slot is full, and one more item was
\* dropped on it (its slotId names the slot, its list does not hold it).
C5_Witness ==
    /\ ENABLE_SLOT_LIMIT
    /\ \E s \in DOMAIN slots :
          /\ Len(slots[s].items) = MAX_ITEMS_PER_SLOT
          /\ \E i \in DOMAIN items :
                items[i].slotId = slots[s].id /\ s \notin holders(slots, items[i].id)

\* C6: a drop of item X on slot T that is accepted (X not in T; limit off or
\* T below the maximum) removes X from every other list, appends X with
\* slotId T as the last element of T's list, keeps the order of all other
\* elements, sets X's slotId in the Item Store to T and leaves every other
\* item's slotId as it was.
C6_AcceptedDropAppends ==
    [][\A t \in DOMAIN slots :
          ( /\ dropOf(event', items, slots, t)
            /\ t \notin holders(slots, event'.activeId)
            /\ (~ENABLE_SLOT_LIMIT \/ Len(slots[t].items) < MAX_ITEMS_PER_SLOT) )
          =>
          LET X == event'.activeId
              T == slots[t].id
          IN  /\ DOMAIN slots' = DOMAIN slots
              /\ \A s \in DOMAIN slots :
                    /\ slots'[s].id = slots[s].id
                    /\ slots'[s].name = slots[s].name
                    /\ s # t => slots'[s].items = without(slots[s].items, X)
              /\ Len(slots'[t].items) = Len(slots[t].items) + 1
              /\ SubSeq(slots'[t].items, 1, Len(slots[t].items)) = slots[t].items
              /\ slots'[t].items[Len(slots'[t].items)].id = X
              /\ slots'[t].items[Len(slots'[t].items)].slotId = T
              /\ DOMAIN items' = DOMAIN items
              /\ \A i \in DOMAIN items :
                    /\ items'[i].id = items[i].id
                    /\ items'[i].content = items[i].content
                    /\ items'[i].slotId = IF items[i].id = X THEN T ELSE items[i].slotId
      ]_vars

\* Witness of C6: the last event dropped an item that is now the last of two
\* or more items of the target slot, and the Item Store names that slot.
C6_Witness ==
    /\ dropOnSlot(event)
    /\ \E t \in DOMAIN slots :
          /\ slots[t].id = event.over.slot.id
          /\ Len(slots[t].items) >= 2
          /\ slots[t].items[Len(slots[t].items)].id = event.activeId
          /\ \E i \in DOMAIN items :
                items[i].id = event.activeId /\ items[i].slotId = slots[t].id

\* C7: dropping an item on the slot whose list already holds it leaves the
\* Item Store and the Slot Store as they were, limit on or off, slot full or
\* not.
C7_RedropChangesNothing ==
    [][\A t \in DOMAIN slots :
          ( /\ dropOf(event', items, slots, t)
            /\ t \in holders(slots, event'.activeId) )
          => (items' = items /\ slots' = slots)]_vars

\* Witness of C7: with the limit enabled, the last event dropped an item on a
\* full slot that holds it, and not as its last element: the drop did not put
\* it there.
C7_Witness ==
    /\ ENABLE_SLOT_LIMIT
    /\ dropOnSlot(event)
    /\ \E t \in DOMAIN slots :
          /\ slots[t].id = event.over.slot.id
          /\ Len(slots[t].items) = MAX_ITEMS_PER_SLOT
          /\ \E k \in 1..(Len(slots[t].items) - 1) : slots[t].items[k].id = event.activeId

\* C8: a drag end with no drop target, over a droppable that is not a slot, or
\* of an id that is no item of the Item Store leaves both stores unchanged.
C8_InvalidDropChangesNothing ==
    [][( /\ event'.op = "dragEnd"
         /\ \/ event'.over = null
            \/ event'.over.type # "slot"
            \/ ~knownItem(items, event'.activeId) )
       => (items' = items /\ slots' = slots)]_vars

\* Witness of C8: the last event dropped an unknown id on a slot that holds
\* items.
C8_Witness ==
    /\ dropOnSlot(event)
    /\ ~knownItem(items, event.activeId)
    /\ \E t \in DOMAIN slots :
          slots[t].id = event.over.slot.id /\ Len(slots[t].items) >= 2

\* C9: a drop of a known item on a target whose slot id is the id of no slot
\* of the Slot Store leaves both stores unchanged.
C9_DropOnAbsentSlotChangesNothing ==
    [][( /\ dropOnSlot(event')
         /\ knownItem(items, event'.activeId)
         /\ event'.over.slot.id \notin slotIds(slots) )
       => (items' = items /\ slots' = slots)]_vars

\* C10: removeSlots with three slots or more removes the last two slots,
\* clears the slotId of exactly the items whose slotId was the id of one of
\* the two, and changes nothing else.
C10_RemoveSlotsClearsAssigned ==
    [][( /\ event'.op = "removeSlots"
         /\ Len(slots) >= 3 )
       =>
       LET n == Len(slots)
           removed == {slots[n - 1].id, slots[n].id}
       IN  /\ slots' = SubSeq(slots, 1, n - 2)
           /\ DOMAIN items' = DOMAIN items
           /\ \A i \in DOMAIN items :
                 /\ items'[i].id = items[i].id
                 /\ items'[i].content = items[i].content
                 /\ items'[i].slotId =
                        IF items[i].slotId \in removed THEN undefined ELSE items[i].slotId
      ]_vars

\* C11: removeSlots called with two slots or fewer leaves both stores
\* unchanged, and the Slot Store never has fewer than two slots.
C11_RemoveSlotsKeepsFloor ==
    /\ [](Len(slots) >= 2)
    /\ [][( /\ event'.op = "removeSlots"
            /\ Len(slots) <= 2 )
          => (items' = items /\ slots' = slots)]_vars

\* Witness of C11: removeSlots was called with two slots, one of them holding
\* items; the two slots and the items are still there.
C11_Witness ==
    /\ event.op = "removeSlots"
    /\ event.slotCount = 2
    /\ Len(slots) = 2
    /\ \E s \in DOMAIN slots : Len(slots[s].items) >= 2

\* C12: addSlots from n slots appends two slots with ids slot-(n+1) and
\* slot-(n+2), names "Slot n+1" and "Slot n+2" and empty lists, leaves the n
\* slots and the Item Store as they were, and is never refused.
C12_AddSlotsAppendsTwo ==
    /\ [](ENABLED addMoreSlots)
    /\ [][event'.op = "addSlots" =>
            LET n == Len(slots) IN
            /\ slots' = slots \o
                   << [id |-> <<"slot-", n + 1>>, name |-> <<"Slot ", n + 1>>, items |-> <<>>],
                      [id |-> <<"slot-", n + 2>>, name |-> <<"Slot ", n + 2>>, items |-> <<>>] >>
            /\ items' = items
         ]_vars

\* Witness of C12: addSlots was called with two slots that hold items; there
\* are four slots now, the first two still holding the items.
C12_Witness ==
    /\ event.op = "addSlots"
    /\ event.slotCount = 2
    /\ Len(slots) = 4
    /\ slots[3].items = <<>> /\ slots[4].items = <<>>
    /\ Len(slots[1].items) >= 1 /\ Len(slots[2].items) >= 1

\* C13: in every reachable state the ids of the slots of the Slot Store are
\* pairwise distinct.
C13_SlotIdsDistinct ==
    \A s, t \in DOMAIN slots : s # t => slots[s].id # slots[t].id

\* Witness of C13: addSlots has just made slot-3 and slot-4 again: an item
\* still carries the slotId of the slot-3 or slot-4 that was removed before.
C13_Witness ==
    /\ event.op = "addSlots"
    /\ Len(slots) = 4
    /\ \E i \in DOMAIN items : items[i].slotId \in {slots[3].id, slots[4].id}

\* C14: unassign(itemId) clears the slotId of that item, removes it from the
\* list that holds it, keeps every other item and the order of the lists, and
\* changes nothing when the item has no slot.
C14_UnassignClearsAndRemoves ==
    [][event'.op = "unassign" =>
          LET X == event'.itemId IN
          /\ DOMAIN items' = DOMAIN items
          /\ \A i \in DOMAIN items :
                /\ items'[i].id = items[i].id
                /\ items'[i].content = items[i].content
                /\ items'[i].slotId = IF items[i].id = X THEN undefined ELSE items[i].slotId
          /\ DOMAIN slots' = DOMAIN slots
          /\ \A s \in DOMAIN slots :
                /\ slots'[s].id = slots[s].id
                /\ slots'[s].name = slots[s].name
                /\ slots'[s].items = without(slots[s].items, X)
          /\ (\A i \in DOMAIN items : items[i].id = X => items[i].slotId = undefined)
                => (items' = items /\ slots' = slots)
      ]_vars

\* Witness of C14: the last event unassigned a known item; it has no slotId
\* and is in no list, while a slot still holds two other items.
C14_Witness ==
    /\ event.op = "unassign"
    /\ \E i \in DOMAIN items :
          /\ items[i].id = event.itemId
          /\ items[i].slotId = undefined
          /\ holders(slots, items[i].id) = {}
    /\ \E s \in DOMAIN slots : Len(slots[s].items) >= 2

\* C15: in every reachable state the Item Store holds the ten seed items, in
\* their order and with their id and content.
C15_SeedItemsKept ==
    /\ Len(items) = 10
    /\ \A i \in 1..10 :
          /\ items[i].id = i
          /\ items[i].content = <<"Task ", i>>

\* Witness of C15: two slots were added and removed again, and an item that
\* was dragged while it was in a slot is now unassigned.
C15_Witness ==
    /\ Len(slots) = 2
    /\ activeItem # null
    /\ activeItem.slotId \notin {undefined} \cup slotIds(slots)
    /\ \E i \in DOMAIN items :
          items[i].id = activeItem.id /\ items[i].slotId = undefined

\* C17: in every reachable state, an item of the unassigned view is in no
\* slot's list.
C17_UnassignedInNoSlot ==
    \A k \in DOMAIN unassignedItems : holders(slots, unassignedItems[k].id) = {}

\* Witness of C17: an item whose drag started while it was assigned to one of
\* the present slots has no slotId now, and other items are still listed.
C17_Witness ==
    /\ activeItem # null
    /\ activeItem.slotId \in slotIds(slots)
    /\ \E i \in DOMAIN items :
          /\ items[i].id = activeItem.id
          /\ items[i].slotId = undefined
          /\ holders(slots, items[i].id) = {}
    /\ \E s \in DOMAIN slots : Len(slots[s].items) >= 1

\* C16: the number of slots is 2 plus twice the addSlots calls minus twice the
\* removeSlots calls made with more than two slots; it is even, 6 after two
\* addSlots calls and 4 after one removeSlots call more.
C16_SlotCountFollowsCalls ==
    /\ Len(slots) = 2 + 2 * calls.added - 2 * calls.removed
    /\ Len(slots) % 2 = 0
    /\ (calls.added = 2 /\ calls.removed = 0) => Len(slots) = 6
    /\ (calls.added = 2 /\ calls.removed = 1) => Len(slots) = 4

\* Witness of C16: after two addSlots calls and one removeSlots call there
\* are four slots, and the item that was assigned is unassigned again.
C16_Witness ==
    /\ calls.added = 2
    /\ calls.removed = 1
    /\ Len(slots) = 4
    /\ activeItem # null
    /\ activeItem.slotId \in {<<"slot-", 5>>, <<"slot-", 6>>}
    /\ \E i \in DOMAIN items :
          items[i].id = activeItem.id /\ items[i].slotId = undefined

====
